---- MODULE Spec2Model ----
(***************************************************************************)
(* Model of s3tool (src/main.py): the Bucket client (build_object_name,    *)
(* ls, upload_file, download_file, delete_file) and the command-line       *)
(* front end that resolves the four connection parameters, persists them   *)
(* to .env and dispatches one action per process run.                      *)
(*                                                                         *)
(* Python strings are sequences of one-character strings; the path         *)
(* separator is "/".  Python's None is the one-element sequence None.      *)
(***************************************************************************)
EXTENDS Integers, Sequences, FiniteSets, TLC

(* ------------------------------ bounds --------------------------------- *)
\* longest path / key / directory string given on the command line
MaxLen == 3
\* last day of the month the clock may reach
MaxDay == 3
\* number of process runs of the tool in one behaviour
MaxRuns == 2

(* ------------------------------ strings -------------------------------- *)
None == <<"<None>">>
Chars == {"a", "/"}

RECURSIVE StrsUpTo(_)
StrsUpTo(n) ==
  IF n = 0 THEN {<<>>}
  ELSE LET shorter == StrsUpTo(n - 1)
       IN  shorter \cup {Append(s, c) : s \in {t \in shorter : Len(t) = n - 1}, c \in Chars}

Strs == StrsUpTo(MaxLen)

\* truthiness of an optional string: None and '' are falsy
Truthy(s) == s # None /\ s # <<>>

\* `x or ''`
OrEmpty(s) == IF Truthy(s) THEN s ELSE <<>>

\* index of the last "/" in p, 0 when there is none (str.rfind('/') + 1)
RFindSlash(p) ==
  LET idx == {i \in 1..Len(p) : p[i] = "/"}
  IN  IF idx = {} THEN 0 ELSE CHOOSE i \in idx : \A j \in idx : j <= i

AllSlashes(p) == \A i \in 1..Len(p) : p[i] = "/"

RECURSIVE RStripSlash(_)
RStripSlash(p) ==
  IF p # <<>> /\ p[Len(p)] = "/" THEN RStripSlash(SubSeq(p, 1, Len(p) - 1)) ELSE p

\* os.path.basename
Basename(p) == SubSeq(p, RFindSlash(p) + 1, Len(p))

\* os.path.dirname
Dirname(p) ==
  LET head == SubSeq(p, 1, RFindSlash(p))
  IN  IF head # <<>> /\ ~AllSlashes(head) THEN RStripSlash(head) ELSE head

EndsWithSlash(p) == p # <<>> /\ p[Len(p)] = "/"

\* os.path.join(a, b)
Join(a, b) ==
  IF b # <<>> /\ b[1] = "/" THEN b
  ELSE IF a = <<>> \/ EndsWithSlash(a) THEN a \o b
  ELSE a \o <<"/">> \o b

StartsWith(s, prefix) ==
  Len(prefix) <= Len(s) /\ SubSeq(s, 1, Len(prefix)) = prefix

(* --------------------------- date and host ----------------------------- *)
Digits == <<"0", "1", "2", "3", "4", "5", "6", "7", "8", "9">>

TwoDigits(n) == <<Digits[(n \div 10) + 1], Digits[(n % 10) + 1]>>

\* datetime.datetime.now().strftime('%Y-%m-%d'), the clock being a day of
\* November 2026
Strftime(day) == <<"2", "0", "2", "6", "-", "1", "1", "-">> \o TwoDigits(day)

Hostnames == {<<"h">>, <<"h", "1">>}

\* os.getcwd()
Cwd == <<"/", "w">>

(* ----------------------------- Bucket ---------------------------------- *)
BuildObjectName_NoHost(file_path, object_name, now, host) ==
  LET name == IF ~Truthy(object_name) THEN Basename(file_path) ELSE object_name
  IN  now \o <<"/">> \o name

\* Bucket.build_object_name, with the two values it reads from the system
BuildObjectName(file_path, object_name, now, host) ==
  LET name == IF ~Truthy(object_name) THEN Basename(file_path) ELSE object_name
  IN  now \o <<"/">> \o host \o <<"/">> \o name

LsPrefix_Raw(directory) == directory

\* the prefix Bucket.ls filters with, for a non-empty directory
LsPrefix(directory) ==
  IF directory = <<>> \/ EndsWithSlash(directory) THEN directory
  ELSE directory \o <<"/">>

\* bucket.objects.filter(Prefix=prefix)
FilterPrefix(objs, prefix) == SelectSeq(objs, LAMBDA k : StartsWith(k, prefix))

\* the list Bucket.ls returns
Ls(objs, directory) ==
  IF directory # <<>> THEN FilterPrefix(objs, LsPrefix(directory)) ELSE objs

SeqRange(s) == {s[i] : i \in 1..Len(s)}


\* the key is stored in the bucket (an existing key is overwritten in place)
PutObject(objs, key) == IF key \in SeqRange(objs) THEN objs ELSE Append(objs, key)

\* bucket.delete_objects for one key; an absent key is not an error
DeleteObject(objs, key) == SelectSeq(objs, LAMBDA k : k # key)

(* ------------------------- local file system --------------------------- *)
\* os.path.isdir
IsDir(ds, p) == p # <<>> /\ (AllSlashes(p) \/ RStripSlash(p) \in ds)

\* the directories os.makedirs(head, exist_ok=True) leaves in place
MakeDirs(ds, head) ==
  LET cuts == {j \in 1..Len(head) : j = Len(head) \/ head[j + 1] = "/"}
      made == {RStripSlash(SubSeq(head, 1, i)) : i \in cuts}
  IN  ds \cup (made \ {<<>>})

\* the local path Bucket.download_file transfers to
DownloadDestination(ds, file_name, destination) ==
  IF ~Truthy(destination) THEN Join(Cwd, Basename(file_name))
  ELSE IF IsDir(ds, destination) THEN Join(destination, Basename(file_name))
  ELSE destination

(* ------------------------ connection parameters ------------------------ *)
ParamOrder == <<"ACCESS_KEY", "SECRET_KEY", "BUCKET_NAME", "URL">>
ParamKeys == SeqRange(ParamOrder)

\* the argparse destination of each connection parameter
FlagOf == [k \in ParamKeys |->
             CASE k = "ACCESS_KEY" -> "access_key"
               [] k = "SECRET_KEY" -> "secret_key"
               [] k = "BUCKET_NAME" -> "bucket_name"
               [] k = "URL" -> "url"]

\* the value of `key` in a .env file, None when the file has no such line
DotenvValue(file, key) ==
  LET idx == {i \in 1..Len(file.lines) : file.lines[i].key = key}
  IN  IF ~file.exists \/ idx = {} THEN None
      ELSE file.lines[CHOOSE i \in idx : \A j \in idx : j <= i].value

\* load_env_variables: load_dotenv() never overrides a variable the process
\* environment already sets, then os.getenv reads each key
LoadEnvVariables(env, file) ==
  [k \in ParamKeys |-> IF env[k] # None THEN env[k] ELSE DotenvValue(file, k)]

MissingParams_First(params) ==
  LET all == SelectSeq(ParamOrder, LAMBDA k : params[k] = None)
  IN  IF all = <<>> THEN <<>> ELSE <<all[1]>>

\* missing_s3_params
MissingParams(params) == SelectSeq(ParamOrder, LAMBDA k : params[k] = None)

\* cli_provided_s3_params
CliProvided(a, loaded) == \E k \in ParamKeys : a[FlagOf[k]] # loaded[k]

ShouldSave_Always(exists, cli_provided) == cli_provided

\* the condition under which .env is written
ShouldSave(exists, cli_provided) == ~exists /\ cli_provided

\* the lines written to .env: one KEY=value line per truthy parameter
EnvLines(params) ==
  LET keys == SelectSeq(ParamOrder, LAMBDA k : Truthy(params[k]))
  IN  [i \in 1..Len(keys) |-> [key |-> keys[i], value |-> params[keys[i]]]]

(* --------------------------- command lines ----------------------------- *)
Actions == {"upload", "ls", "download", "delete"}
\* no subcommand on the command line
NoAction == "<none>"

FlagNames == {FlagOf[k] : k \in ParamKeys}

\* the connection flags of a command line; None is a flag that is not given
NoFlags == [f \in FlagNames |-> None]
FlagsAll(v) == [f \in FlagNames |-> v]
AllFlags == [FlagNames -> {None, <<>>, <<"c">>}]

Command(action, file_path, object_name, directory, file_name, local_path) ==
  [action |-> action, file_path |-> file_path, object_name |-> object_name,
   directory |-> directory, file_name |-> file_name, local_path |-> local_path]

UploadCmd(file_path, object_name) ==
  Command("upload", file_path, object_name, None, None, None)
\* --directory defaults to ''
LsCmd(directory) == Command("ls", None, None, directory, None, None)
DownloadCmd(file_name, local_path) ==
  Command("download", None, None, None, file_name, local_path)
DeleteCmd(file_name) == Command("delete", None, None, None, file_name, None)

\* command lines argparse rejects: no subcommand, a required option missing
BadCmds == {Command(NoAction, None, None, None, None, None),
            UploadCmd(None, None), DownloadCmd(None, None), DeleteCmd(None)}

AllCmds ==
  {UploadCmd(fp, on) : fp \in Strs, on \in Strs \cup {None}}
    \cup {LsCmd(d) : d \in Strs}
    \cup {DownloadCmd(fn, lp) : fn \in Strs, lp \in Strs \cup {None}}
    \cup {DeleteCmd(fn) : fn \in Strs}
    \cup BadCmds

BasicCmds ==
  {UploadCmd(<<"a">>, None), LsCmd(<<>>), DownloadCmd(<<"a">>, None),
   DeleteCmd(<<"a">>), Command(NoAction, None, None, None, None, None)}

\* the command lines explored: the first run takes every combination of
\* connection flags with a basic command and every command with no or all
\* flags; a later run reuses the configuration or gives all flags anew
CommandLines(r) ==
  IF r = 1
  THEN {f @@ c : f \in AllFlags, c \in BasicCmds}
         \cup {f @@ c : f \in {NoFlags, FlagsAll(<<"c">>)}, c \in AllCmds}
  ELSE {f @@ c : f \in {NoFlags, FlagsAll(<<"c">>), FlagsAll(<<"d">>)},
                 c \in BasicCmds}

\* parser.parse_args() exits with status 2 on these
UsageError(cl) ==
  \/ cl.action = NoAction
  \/ cl.action = "upload" /\ cl.file_path = None
  \/ cl.action \in {"download", "delete"} /\ cl.file_name = None

\* the namespace parse_args returns: a flag not given takes the loaded value
ParseArgsResult(cl, loaded) ==
  [f \in FlagNames |->
     IF cl[f] # None THEN cl[f]
     ELSE loaded[CHOOSE k \in ParamKeys : FlagOf[k] = f]] @@ cl

\* the process environments explored
Environments ==
  {[k \in ParamKeys |-> None],
   [k \in ParamKeys |-> <<"e">>],
   [k \in ParamKeys |-> IF k = "ACCESS_KEY" THEN <<"e">> ELSE None]}

\* the bucket and the local directories every behaviour starts with
InitObjects == <<<<"a">>, <<"a", "/", "a">>, <<"a", "a">>>>
InitDirs == {<<"a">>, Cwd}

(* ------------------------------- state --------------------------------- *)
VARIABLES
  environ,            \* os.environ of the invoking shell
  hostname,           \* socket.gethostname()
  clock,              \* the current day, read by datetime.datetime.now()
  dotenv,             \* the .env file: [exists, lines]
  objects,            \* keys of the bucket, in listing order
  dirs,               \* local directories
  files,              \* local files written by downloads
  run,                \* number of the current process run
  pc,                 \* position of the current run
  env_params,         \* load_env_variables()
  argv,               \* the command line of the current run
  args,               \* parser.parse_args()
  s3_params,          \* the consolidated connection parameters
  stdout,             \* messages printed, in order
  exit_status,        \* process exit status, -1 while running
  failure,            \* the step that ended the run, "none" otherwise
  final_object_name,  \* the key upload_file stored under
  ls_result,          \* [prefix, keys] of the query Bucket.ls made
  destination,        \* the local path download_file transferred to
  persisted           \* [run, params]: the run that wrote .env and its s3_params

vars == <<environ, hostname, clock, dotenv, objects, dirs, files, run, pc,
          env_params, argv, args, s3_params, stdout, exit_status, failure,
          final_object_name, ls_result, destination, persisted>>

system == <<environ, hostname>>
remote == <<objects>>
local == <<dirs, files>>
results == <<final_object_name, ls_result, destination>>

NoParams == [k \in ParamKeys |-> None]
NoArgs == NoFlags @@ Command(NoAction, None, None, None, None, None)
NoLs == [prefix |-> None, keys |-> <<>>]

Msg(m, a) == [msg |-> m, arg |-> a]

Init ==
  /\ environ \in Environments
  /\ hostname \in Hostnames
  /\ clock = 1
  /\ dotenv = [exists |-> FALSE, lines |-> <<>>]
  /\ objects = InitObjects
  /\ dirs = InitDirs
  /\ files = {}
  /\ run = 1
  /\ pc = "start"
  /\ env_params = NoParams
  /\ argv = NoArgs
  /\ args = NoArgs
  /\ s3_params = NoParams
  /\ stdout = <<>>
  /\ exit_status = -1
  /\ failure = "none"
  /\ final_object_name = None
  /\ ls_result = NoLs
  /\ destination = None
  /\ persisted = [run |-> 0, params |-> NoParams]

(* ------------------------------ actions -------------------------------- *)
\* the process ends: sys.exit(status), or falling off the end of the script
Exit(status, cause) ==
  /\ pc' = "done"
  /\ exit_status' = status
  /\ failure' = cause

Fail_Swallow(out, cause) ==
  /\ stdout' = Append(out, Msg("error", args.action))
  /\ Exit(0, cause)

\* the top-level handler: an exception raised inside the try block is
\* printed with the action's name and the process exits with status 1
Fail(out, cause) ==
  /\ stdout' = Append(out, Msg("error", args.action))
  /\ Exit(1, cause)

\* env_params = load_env_variables()
LoadEnv ==
  /\ pc = "start"
  /\ env_params' = LoadEnvVariables(environ, dotenv)
  /\ pc' = "parse"
  /\ UNCHANGED <<system, clock, dotenv, remote, local, run, argv, args,
                 s3_params, stdout, exit_status, failure, results, persisted>>

\* args = parser.parse_args()
ParseArgs ==
  /\ pc = "parse"
  /\ \E cl \in CommandLines(run) :
       /\ argv' = cl
       /\ IF UsageError(cl)
          THEN /\ Exit(2, "usage")
               /\ UNCHANGED args
          ELSE /\ args' = ParseArgsResult(cl, env_params)
               /\ pc' = "check"
               /\ UNCHANGED <<exit_status, failure>>
  /\ UNCHANGED <<system, clock, dotenv, remote, local, run, env_params,
                 s3_params, stdout, results, persisted>>

\* consolidate the connection parameters and check that none is missing
CheckParams ==
  /\ pc = "check"
  /\ LET params == [k \in ParamKeys |-> args[FlagOf[k]]]
         missing == MissingParams(params)
     IN  /\ s3_params' = params
         /\ IF missing # <<>>
            THEN /\ stdout' = stdout \o <<Msg("missing", missing), Msg("hint", <<>>)>>
                 /\ Exit(1, "missing")
            ELSE /\ pc' = "save"
                 /\ UNCHANGED <<stdout, exit_status, failure>>
  /\ UNCHANGED <<system, clock, dotenv, remote, local, run, env_params, argv,
                 args, results, persisted>>

\* save the parameters to .env; open() and write() are outside the try block
SaveEnv ==
  /\ pc = "save"
  /\ IF ShouldSave(dotenv.exists, CliProvided(args, env_params))
     THEN /\ stdout' = Append(stdout, Msg("saving", <<>>))
          /\ \E written \in BOOLEAN :
               IF written
               THEN /\ dotenv' = [exists |-> TRUE, lines |-> EnvLines(s3_params)]
                    /\ persisted' = [run |-> run, params |-> s3_params]
                    /\ pc' = "connect"
                    /\ UNCHANGED <<exit_status, failure>>
               ELSE /\ Exit(1, "env_write")
                    /\ UNCHANGED <<dotenv, persisted>>
     ELSE /\ pc' = "connect"
          /\ UNCHANGED <<dotenv, persisted, stdout, exit_status, failure>>
  /\ UNCHANGED <<system, clock, remote, local, run, env_params, argv, args,
                 s3_params, results>>

\* s3_instance = Bucket(...): boto3.resource may raise
Connect ==
  /\ pc = "connect"
  /\ LET out == Append(stdout, Msg("connecting", s3_params["BUCKET_NAME"]))
     IN  \E connected \in BOOLEAN :
           IF connected
           THEN /\ stdout' = out
                /\ pc' = "action"
                /\ UNCHANGED <<exit_status, failure>>
           ELSE Fail(out, "connect")
  /\ UNCHANGED <<system, clock, dotenv, remote, local, run, env_params, argv,
                 args, s3_params, results, persisted>>

\* s3_instance.upload_file(args.file_path, args.object_name or '')
Upload ==
  /\ pc = "action"
  /\ args.action = "upload"
  /\ \E bucket_ok \in BOOLEAN, file_ok \in BOOLEAN :
       LET key == BuildObjectName(args.file_path, OrEmpty(args.object_name),
                                  Strftime(clock), hostname)
           readable == /\ file_ok
                       /\ args.file_path # <<>>
                       /\ ~EndsWithSlash(args.file_path)
                       /\ ~IsDir(dirs, args.file_path)
       IN  IF ~bucket_ok
           THEN /\ Fail(stdout, "bucket")
                /\ UNCHANGED <<objects, final_object_name>>
           ELSE IF ~readable
           THEN /\ Fail(stdout, "io")
                /\ UNCHANGED <<objects, final_object_name>>
           ELSE /\ objects' = PutObject(objects, key)
                /\ final_object_name' = key
                /\ pc' = "uploaded"
                /\ UNCHANGED <<stdout, exit_status, failure>>
  /\ UNCHANGED <<system, clock, dotenv, local, run, env_params, argv, args,
                 s3_params, ls_result, destination, persisted>>

\* the success message of the upload action computes the key again
UploadMessage ==
  /\ pc = "uploaded"
  /\ LET key == BuildObjectName(args.file_path, OrEmpty(args.object_name),
                                Strftime(clock), hostname)
     IN  stdout' = Append(stdout, Msg("uploaded", key))
  /\ Exit(0, "none")
  /\ UNCHANGED <<system, clock, dotenv, remote, local, run, env_params, argv,
                 args, s3_params, results, persisted>>

\* midnight passes while an upload is under way
Tick ==
  /\ pc \in {"action", "uploaded"}
  /\ args.action = "upload"
  /\ clock < MaxDay
  /\ clock' = clock + 1
  /\ UNCHANGED <<system, dotenv, remote, local, run, pc, env_params, argv,
                 args, s3_params, stdout, exit_status, failure, results,
                 persisted>>

\* files = s3_instance.ls(args.directory), then the keys are printed
ListObjects ==
  /\ pc = "action"
  /\ args.action = "ls"
  /\ LET out == Append(stdout, Msg("listing", OrEmpty(args.directory)))
     IN  \E bucket_ok \in BOOLEAN :
           IF ~bucket_ok
           THEN /\ Fail(out, "bucket")
                /\ UNCHANGED ls_result
           ELSE LET keys == Ls(objects, args.directory)
                IN  /\ ls_result' =
                         [prefix |-> IF args.directory # <<>>
                                     THEN LsPrefix(args.directory) ELSE None,
                          keys |-> keys]
                    /\ stdout' = Append(out, Msg("keys", keys))
                    /\ Exit(0, "none")
  /\ UNCHANGED <<system, clock, dotenv, remote, local, run, env_params, argv,
                 args, s3_params, final_object_name, destination, persisted>>

\* s3_instance.download_file(args.file_name, args.local_path)
Download ==
  /\ pc = "action"
  /\ args.action = "download"
  /\ LET out == Append(stdout, Msg("downloading", args.file_name))
         dest == DownloadDestination(dirs, args.file_name, args.local_path)
         head == Dirname(dest)
     IN  \E bucket_ok \in BOOLEAN, mkdir_ok \in BOOLEAN, write_ok \in BOOLEAN :
           IF ~bucket_ok
           THEN /\ Fail(out, "bucket")
                /\ UNCHANGED <<dirs, files, destination>>
           ELSE IF head = <<>>
           THEN \* os.makedirs('') raises FileNotFoundError
                /\ Fail(out, "makedirs")
                /\ UNCHANGED <<dirs, files, destination>>
           ELSE IF ~mkdir_ok /\ ~IsDir(dirs, head)
           THEN /\ Fail(out, "io")
                /\ UNCHANGED <<dirs, files, destination>>
           ELSE /\ dirs' = MakeDirs(dirs, head)
                /\ IF args.file_name \notin SeqRange(objects)
                   THEN /\ Fail(out, "notfound")
                        /\ UNCHANGED <<files, destination>>
                   ELSE IF ~write_ok \/ IsDir(dirs', dest)
                   THEN /\ Fail(out, "io")
                        /\ UNCHANGED <<files, destination>>
                   ELSE /\ files' = files \cup {dest}
                        /\ destination' = dest
                        /\ stdout' = Append(out, Msg("downloaded", dest))
                        /\ Exit(0, "none")
  /\ UNCHANGED <<system, clock, dotenv, remote, run, env_params, argv, args,
                 s3_params, final_object_name, ls_result, persisted>>

\* s3_instance.delete_file(args.file_name)
Delete ==
  /\ pc = "action"
  /\ args.action = "delete"
  /\ LET out == Append(stdout, Msg("deleting", args.file_name))
     IN  \E bucket_ok \in BOOLEAN, delete_ok \in BOOLEAN :
           IF ~bucket_ok
           THEN /\ Fail(out, "bucket")
                /\ UNCHANGED objects
           ELSE IF ~delete_ok
           THEN /\ Fail(out, "access")
                /\ UNCHANGED objects
           ELSE /\ objects' = DeleteObject(objects, args.file_name)
                /\ stdout' = out \o <<Msg("deleted", args.file_name),
                                      Msg("deleted_ok", args.file_name)>>
                /\ Exit(0, "none")
  /\ UNCHANGED <<system, clock, dotenv, local, run, env_params, argv, args,
                 s3_params, results, persisted>>

\* the tool is invoked again, from the same shell and directory
NewRun ==
  /\ pc = "done"
  /\ run < MaxRuns
  /\ run' = run + 1
  /\ pc' = "start"
  /\ env_params' = NoParams
  /\ argv' = NoArgs
  /\ args' = NoArgs
  /\ s3_params' = NoParams
  /\ stdout' = <<>>
  /\ exit_status' = -1
  /\ failure' = "none"
  /\ final_object_name' = None
  /\ ls_result' = NoLs
  /\ destination' = None
  /\ UNCHANGED <<system, clock, dotenv, remote, local, persisted>>

Next ==
  \/ LoadEnv
  \/ ParseArgs
  \/ CheckParams
  \/ SaveEnv
  \/ Connect
  \/ Upload
  \/ UploadMessage
  \/ Tick
  \/ ListObjects
  \/ Download
  \/ Delete
  \/ NewRun

Spec == Init /\ [][Next]_vars

(* ------------------------------ properties ----------------------------- *)
\* the "/"-separated segments of a key
RECURSIVE Segments(_)
Segments(s) ==
  IF RFindSlash(s) = 0 THEN <<s>>
  ELSE Append(Segments(SubSeq(s, 1, RFindSlash(s) - 1)),
              SubSeq(s, RFindSlash(s) + 1, Len(s)))

\* b is the part of p after its last "/"
IsBasenameOf(b, p) ==
  /\ \A i \in 1..Len(b) : b[i] # "/"
  /\ Len(b) <= Len(p)
  /\ SubSeq(p, Len(p) - Len(b) + 1, Len(p)) = b
  /\ Len(b) < Len(p) => p[Len(p) - Len(b)] = "/"

\* a path with runs of "/" collapsed: the same file-system location
RECURSIVE NormPath(_)
NormPath(p) ==
  IF Len(p) < 2 THEN p
  ELSE IF p[1] = "/" /\ p[2] = "/" THEN NormPath(Tail(p))
  ELSE <<p[1]>> \o NormPath(Tail(p))

Printed(m) == {stdout[i].arg : i \in {j \in 1..Len(stdout) : stdout[j].msg = m}}

\* the run has passed the check of the connection parameters
Checked ==
  \/ pc \in {"save", "connect", "action", "uploaded"}
  \/ pc = "done" /\ failure # "usage"

\* the run ended inside the method of the Bucket that carries out `action`
EndedIn(action) ==
  /\ pc = "done"
  /\ args.action = action
  /\ failure \notin {"missing", "env_write", "connect"}

\* the value a connection parameter resolves to: flag first, then the
\* environment / config file
Resolved(k) == IF argv[FlagOf[k]] # None THEN argv[FlagOf[k]] ELSE env_params[k]

\* C1: an upload with no explicit object name (absent or empty) stores the
\* file under {YYYY-MM-DD of the current date}/{hostname}/{basename(file_path)},
\* a key of exactly three segments.
C1_DefaultKey ==
  [][(pc = "action" /\ pc' = "uploaded" /\ ~Truthy(args.object_name)) =>
       LET parts == Segments(final_object_name')
       IN  /\ Len(parts) = 3
           /\ parts[1] = Strftime(clock)
           /\ parts[2] = hostname
           /\ IsBasenameOf(parts[3], args.file_path)
           /\ final_object_name' \in SeqRange(objects')]_vars

C1_Witness ==
  /\ pc = "uploaded"
  /\ args.object_name = None
  /\ RFindSlash(args.file_path) > 0
  /\ final_object_name \in SeqRange(objects)

\* C2: an upload with a non-empty explicit object name stores the file under
\* exactly that name, with no date or hostname prefix.
C2_ExplicitVerbatim ==
  (pc = "uploaded" /\ Truthy(args.object_name)) =>
    /\ final_object_name = args.object_name
    /\ args.object_name \in SeqRange(objects)

\* C3: once flags and environment/config values are combined, if any of the
\* four connection parameters is missing the run prints exactly the missing
\* names (each once) and exits with status 1; if none is missing it prints no
\* such message and goes on.
C3_MissingListed ==
  Checked =>
    LET missing == {k \in ParamKeys : Resolved(k) = None}
        listed == Printed("missing")
    IN  IF missing # {}
        THEN /\ pc = "done"
             /\ exit_status = 1
             /\ Cardinality(listed) = 1
             /\ \A names \in listed :
                  /\ SeqRange(names) = missing
                  /\ Len(names) = Cardinality(missing)
        ELSE /\ listed = {}
             /\ failure # "missing"

C3_Witness ==
  /\ pc = "done"
  /\ exit_status = 1
  /\ environ["ACCESS_KEY"] # None
  /\ Printed("missing") = {<<"SECRET_KEY", "URL">>}

C5_RoundTrip ==
  (/\ persisted.run > 0
   /\ run > persisted.run
   /\ \A k \in ParamKeys : environ[k] = None
   /\ \A f \in FlagNames : argv[f] = None
   /\ Checked) =>
    /\ failure # "missing"
    /\ s3_params = persisted.params

\* C6: unless the bucket is unreachable, the key is missing or a local write
\* fails, a download with a non-empty destination writes the file to
\* {destination}/{basename(key)} when the destination is an existing
\* directory and to the destination exactly as given otherwise.
C6_DownloadPlacement ==
  (/\ EndedIn("download")
   /\ Truthy(args.local_path)
   /\ failure \notin {"bucket", "notfound", "io"}) =>
    /\ destination \in files
    /\ IF IsDir(dirs, args.local_path)
       THEN NormPath(destination) =
              NormPath(args.local_path \o <<"/">> \o Basename(args.file_name))
       ELSE destination = args.local_path

\* C9: for a destination that is not an existing directory, ensuring the
\* parent directory does not itself fail, so a download that reached the
\* bucket ends in success, a missing key or a write failure.
C9_ParentEnsured ==
  (/\ EndedIn("download")
   /\ Truthy(args.local_path)
   /\ ~IsDir(dirs, args.local_path)
   /\ failure # "bucket") =>
    failure \in {"none", "notfound", "io"}

\* C10: in a successful upload run the key printed in the success message is
\* the key the file was stored under.
C10_MessageKey ==
  (pc = "done" /\ args.action = "upload" /\ exit_status = 0) =>
    Printed("uploaded") = {final_object_name}

\* the requested operation has taken effect
OperationDone ==
  CASE args.action = "upload" -> final_object_name \in SeqRange(objects)
    [] args.action = "ls" -> Printed("keys") = {ls_result.keys}
    [] args.action = "download" -> destination \in files
    [] args.action = "delete" -> args.file_name \notin SeqRange(objects)
    [] OTHER -> FALSE

HandlerPrinted ==
  /\ stdout # <<>>
  /\ stdout[Len(stdout)] = Msg("error", args.action)
  /\ args.action \in Actions

\* C7 as stated: a finished run has status 0 or 1, status 1 exactly when a
\* step failed, and every failure is printed by the top-level handler with
\* the name of the action.
C7_AllFailuresHandled ==
  pc = "done" =>
    /\ exit_status \in {0, 1}
    /\ exit_status = 1 <=> failure # "none"
    /\ failure # "none" => HandlerPrinted

\* C7 amended: status 0 with the operation done; status 2 and nothing printed
\* when argparse rejects the command line; status 1 without the handler for a
\* missing parameter or a failed .env write; status 1 with the handler's
\* message naming the action for a failure from connecting onwards.
C7_ExitStatus ==
  pc = "done" =>
    CASE failure = "none" -> exit_status = 0 /\ OperationDone
      [] failure = "usage" -> exit_status = 2 /\ stdout = <<>>
      [] failure \in {"missing", "env_write"} ->
           exit_status = 1 /\ Printed("error") = {}
      [] OTHER -> exit_status = 1 /\ HandlerPrinted

C7_Witness ==
  /\ pc = "done"
  /\ failure = "notfound"
  /\ exit_status = 1
  /\ HandlerPrinted

\* C8: for a non-empty directory d not ending in "/", ls(d) queries the
\* prefix and returns the keys that ls(d + "/") does, the keys starting with
\* d + "/"; ls with an empty directory returns every key of the bucket.
C8_SlashEquivalence ==
  (pc = "done" /\ args.action = "ls" /\ failure = "none") =>
    LET d == args.directory
        ds == d \o <<"/">>
    IN  IF d = <<>>
        THEN ls_result = [prefix |-> None, keys |-> objects]
        ELSE ~EndsWithSlash(d) =>
               /\ ls_result = [prefix |-> LsPrefix(ds), keys |-> Ls(objects, ds)]
               /\ ls_result.prefix = ds
               /\ ls_result.keys = SelectSeq(objects, LAMBDA k : StartsWith(k, ds))

C8_Witness ==
  /\ pc = "done"
  /\ args.action = "ls"
  /\ args.directory = <<"a">>
  /\ ls_result.keys = <<<<"a", "/", "a">>>>

====
